---- MODULE Spec2Model ----
(***************************************************************************)
(* A model of rust-hyper-server: startup, the TCP accept loop, the         *)
(* per-connection handler with its two-stage timeout escalation, the       *)
(* connection tracker with its guard, the connection_info endpoint, the    *)
(* router, and static files: the cache rules service and the handler.      *)
(*                                                                         *)
(* Four specifications share the module:                                   *)
(*   Spec         the server: startup, accept loop, connection tasks,      *)
(*                requests                                                 *)
(*   TrackerSpec  the tracker's operations called concurrently by clients  *)
(*   RouterSpec   router construction and dispatch over bounded route lists*)
(*   StaticSpec   the rules service and the static-file handler applied to *)
(*                bounded rule lists, resolve results and clock values     *)
(***************************************************************************)
EXTENDS Integers, Sequences, FiniteSets, TLC

\* ------------------------------------------------------------------ bounds

\* Streams the accept loop takes in one behaviour.
MaxConns == 2

\* Requests served in one behaviour (all connections together).
MaxRequests == 2

\* Tasks calling the tracker concurrently.
MaxClients == 2

\* Mutating tracker calls (add, remove, increment) made in one behaviour.
MaxOps == 4

\* Routes the command and request_info modules contribute to create_handlers.
MaxCommandRoutes == 2

MaxRequestInfoRoutes == 1

\* Cache rules in the static-file configuration.
MaxRules == 2

\* Ticks of the clock in one second: durations are finer than the whole
\* seconds a Cache-Control header carries.
TicksPerSecond == 2

VARIABLES
    serverProtocol,    \* server_configuration.server_protocol(): "Http1" | "Http2"
    nextConnectionId,  \* ConnectionIDFactory's counter
    nextRequestId,     \* RequestIDFactory's counter
    now,               \* the clock add_connection reads for creation_time
    tracker,           \* ConnectionTracker: ConnectionID -> ConnectionInfo
    accepted,          \* streams accept() has returned so far
    pc,                \* per stream: "free" | "rejected" | "serving" | "done"
    guardId,           \* per stream: the id held by its ConnectionGuard
    iter,              \* per stream: index of the for loop of handle_connection
    signals,           \* per stream: the timers graceful_shutdown was called for
    exitPath,          \* per stream: how handle_connection ended
    removeCalls,       \* per stream: remove_connection calls made for its guard
    inflight,          \* per stream: requests the service was called for, unanswered
    response,          \* the response handle_request returned, until it is written
    mainPc,            \* where try_main is: the step it is at, "accept" or "exited"
    completed,         \* the startup steps of try_main that returned Ok
    fatal,             \* the step whose error try_main returned, "none" if none did
    exitStatus,        \* the status the process exited with, None while it runs
    calls,             \* per stream: service calls made on it while it is live
    requestIds         \* the request ids handed out, in the order they were

VARIABLES
    lock,              \* the tracker's lock: 0 when free, else the client holding it
    cpc,               \* per client: "idle" | "add" | "snapshot"
    creg,              \* per client: the locals of the call it is in
    issued,            \* the ids of the guards add_connection has returned
    added,             \* add_connection calls that have returned
    removed,           \* whether remove_connection was ever called
    lastOp,            \* the tracker call that took the last step
    ops                \* mutating tracker calls started so far

VARIABLES
    commandRoutes,     \* commands::create_routes(), from the configuration
    requestInfoRoutes, \* request_info::create_routes()
    router,            \* the result of create_handlers, once it ran
    dispatched         \* the last dispatch: method, path and the handler returned

VARIABLES
    cacheRules,        \* static_file_configuration.cache_rules, in configured order
    rulesService,      \* RULES_SERVICE_INSTANCE, once create_rules_service_instance ran
    resolveResult,     \* what resolver.resolve_request returned for the request
    clock,             \* SystemTime::now()
    buildOk,           \* whether ResponseBuilder::build succeeds for the request
    cacheHeader,       \* the answer of the rules service for the resolved file
    staticResponse     \* the response of StaticFileHandler::handle

\* try_main's own variables.
mainVars == <<mainPc, completed, fatal, exitStatus>>

serverVars == <<serverProtocol, nextConnectionId, nextRequestId, now, tracker,
                accepted, pc, guardId, iter, signals, exitPath, removeCalls,
                inflight, response, mainVars, calls, requestIds>>

\* The server's variables the tracker's calls leave alone.
serverRest == <<serverProtocol, nextRequestId, accepted, pc, guardId, iter, signals,
                exitPath, removeCalls, inflight, response, mainVars, calls, requestIds>>

trackerVars == <<lock, cpc, creg, issued, added, removed, lastOp, ops>>

routerVars == <<commandRoutes, requestInfoRoutes, router, dispatched>>

staticVars == <<cacheRules, rulesService, resolveResult, clock, buildOk, cacheHeader,
                staticResponse>>

vars == <<serverVars, trackerVars, routerVars, staticVars>>

Clients == 1..MaxClients

Streams == 1..MaxConns

NoResponse ==
    [stream |-> 0, handler |-> "none", status |-> "none", failed |-> FALSE,
     service_result |-> "none", connections |-> <<>>]

\* ------------------------------------------------------------ small helpers

IsPrefix(s, t) == Len(s) <= Len(t) /\ \A i \in 1..Len(s) : s[i] = t[i]

\* Every enumeration of the finite set S as a sequence without repetition.
RECURSIVE Enumerations(_)
Enumerations(S) ==
    IF S = {} THEN {<<>>}
    ELSE UNION {{<<x>> \o e : e \in Enumerations(S \ {x})} : x \in S}

\* --------------------------------------------------------- connection tracker

ConnectionInfo(id, time, protocol, socketType) ==
    [connection_id |-> id, creation_time |-> time, server_protocol |-> protocol,
     server_socket_type |-> socketType, num_requests |-> 0]

\* add_connection's insert of the new entry under id.
InsertConnection(tr, info) ==
    [k \in DOMAIN tr \union {info.connection_id} |->
        IF k = info.connection_id THEN info ELSE tr[k]]

\* A removal that also drops every entry older than id.
RemoveConnectionAndOlder(tr, id) == [k \in {j \in DOMAIN tr : j > id} |-> tr[k]]

\* remove_connection(id): the entry is deleted; an absent id changes nothing.
RemoveConnection(tr, id) == [k \in DOMAIN tr \ {id} |-> tr[k]]

\* An increment that inserts a fresh entry for an id it does not find.
IncrementRequestCountUpsert(tr, id) ==
    IF id \in DOMAIN tr THEN [tr EXCEPT ![id].num_requests = @ + 1]
    ELSE InsertConnection(tr, [ConnectionInfo(id, 0, "Http1", "Tcp") EXCEPT !.num_requests = 1])

\* increment_request_count(id): bumps the counter of a tracked entry.
IncrementRequestCount(tr, id) ==
    IF id \in DOMAIN tr THEN [tr EXCEPT ![id].num_requests = @ + 1] ELSE tr

\* get_all_connections(): a copy of every entry. The order of the copy is the
\* registry's own and is left open here: any enumeration of the entries.
GetAllConnections(tr) ==
    {[i \in 1..Len(e) |-> tr[e[i]]] : e \in Enumerations(DOMAIN tr)}

\* -------------------------------------------------------------------- router

Methods == {"GET", "POST"}

Paths == {"connection_info", "request_info", "commands/ls"}

Route(method, path, handler) ==
    [method |-> method, path_suffix |-> path, handler |-> handler]

DefaultHandler == "StaticFileHandler"

Matches(route, method, path) == route.method = method /\ route.path_suffix = path

\* Router::new(routes): the routes are registered one at a time, in order; a route
\* whose (method, path) is already registered fails the construction.
RECURSIVE Register(_, _)
Register(table, routes) ==
    IF routes = <<>> THEN [ok |-> TRUE, routes |-> table, error |-> "none"]
    ELSE IF \E i \in 1..Len(table) :
                Matches(table[i], Head(routes).method, Head(routes).path_suffix)
         THEN [ok |-> FALSE, routes |-> <<>>, error |-> "DuplicateRoute"]
         ELSE Register(Append(table, Head(routes)), Tail(routes))

RouterNew(routes) == Register(<<>>, routes)

\* dispatch: the handler of the registered route equal to the request's method
\* and path, the default handler when there is none.
RouterDispatch(rt, method, path) ==
    IF \E i \in 1..Len(rt.routes) : Matches(rt.routes[i], method, path)
    THEN LET i == CHOOSE j \in 1..Len(rt.routes) :
                    /\ Matches(rt.routes[j], method, path)
                    /\ \A k \in 1..(j - 1) : ~Matches(rt.routes[k], method, path)
         IN  rt.routes[i].handler
    ELSE DefaultHandler

\* The endpoint's route registered under the wrong method.
ConnectionCreateRoutesPost == <<Route("POST", "connection_info", "ConnectionInfoHandler")>>

\* handlers/connection.rs create_routes: the one route of the endpoint.
ConnectionCreateRoutes == <<Route("GET", "connection_info", "ConnectionInfoHandler")>>

\* create_handlers falling back to the endpoint's routes alone when Router::new
\* fails, instead of returning the error.
CreateHandlersIgnoreError(commands, requestInfo) ==
    IF RouterNew(ConnectionCreateRoutes \o commands \o requestInfo).ok
    THEN RouterNew(ConnectionCreateRoutes \o commands \o requestInfo)
    ELSE RouterNew(ConnectionCreateRoutes)

\* create_handlers: the three route lists appended in order, then Router::new,
\* whose error is returned to try_main.
CreateHandlers(commands, requestInfo) ==
    RouterNew(ConnectionCreateRoutes \o commands \o requestInfo)

\* ---------------------------------------------------- connection_info handler

\* local_date_time_to_string: the timestamp rendered as text.
LocalDateTimeToString(time) == <<"rfc3339", time>>

\* From<&ConnectionInfo> for ConnectionInfoDTO.
ConnectionInfoDTO(info) ==
    [connection_id |-> info.connection_id,
     creation_time |-> LocalDateTimeToString(info.creation_time),
     server_protocol |-> info.server_protocol]

\* Vec::sort_by_key(|c| c.connection_id): a stable sort, as an insertion sort.
RECURSIVE InsertByKey(_, _)
InsertByKey(sorted, dto) ==
    IF sorted = <<>> THEN <<dto>>
    ELSE IF dto.connection_id < Head(sorted).connection_id
         THEN <<dto>> \o sorted
         ELSE <<Head(sorted)>> \o InsertByKey(Tail(sorted), dto)

RECURSIVE SortByKey(_)
SortByKey(dtos) ==
    IF dtos = <<>> THEN <<>>
    ELSE InsertByKey(SortByKey(SubSeq(dtos, 1, Len(dtos) - 1)), dtos[Len(dtos)])

\* The handler without its sort: the entries in the order the tracker gave them.
ConnectionInfoHandleUnsorted(all) ==
    [handler |-> "ConnectionInfoHandler",
     connections |-> [i \in 1..Len(all) |-> ConnectionInfoDTO(all[i])]]

\* ConnectionInfoHandler::handle on the entries get_all_connections returned.
ConnectionInfoHandle(all) ==
    [handler |-> "ConnectionInfoHandler",
     connections |-> SortByKey([i \in 1..Len(all) |-> ConnectionInfoDTO(all[i])])]

\* build_json_response: the DTO as the JSON body of a 200, or an empty 500 when
\* serde_json::to_string fails.
BuildJsonResponse(response_dto, serialized) ==
    IF serialized
    THEN [status |-> "OK", connections |-> response_dto.connections]
    ELSE [status |-> "INTERNAL_SERVER_ERROR", connections |-> <<>>]

\* ------------------------------------------------ static files: the rule engine

\* Option<T>: None and Some(x).
None == <<>>

Some(x) == <<x>>

\* str::starts_with, str::ends_with and str::contains on a text given as the
\* sequence of its characters.
StartsWith(s, p) == Len(p) <= Len(s) /\ SubSeq(s, 1, Len(p)) = p

EndsWith(s, p) == Len(p) <= Len(s) /\ SubSeq(s, Len(s) - Len(p) + 1, Len(s)) = p

Contains(s, p) == \E i \in 0..(Len(s) - Len(p)) : SubSeq(s, i + 1, i + Len(p)) = p

\* regex::Regex::new on a configured pattern. The patterns are anchored or
\* unanchored literals: ^text, text$ and text; any other text does not compile.
RegexNew(pattern) ==
    IF pattern.kind \in {"prefix", "suffix", "contains"}
    THEN [ok |-> TRUE, regex |-> pattern]
    ELSE [ok |-> FALSE, regex |-> pattern]

\* regex::Regex::is_match: an unanchored search of the text.
IsMatch(regex, text) ==
    CASE regex.kind = "prefix" -> StartsWith(text, regex.text)
      [] regex.kind = "suffix" -> EndsWith(text, regex.text)
      [] OTHER -> Contains(text, regex.text)

\* SystemTime::duration_since(earlier): Err when earlier is the later one.
DurationSince(later, earlier) ==
    IF earlier <= later
    THEN [ok |-> TRUE, duration |-> later - earlier]
    ELSE [ok |-> FALSE, duration |-> earlier - later]

\* Result<Duration, _>::unwrap_or_default: Duration::default() is zero.
UnwrapOrDefault(result) == IF result.ok THEN result.duration ELSE 0

\* CacheRule::matches, the same for both rule types.
CacheRuleMatches(rule, resolved_path) == IsMatch(rule.path_regex, resolved_path)

\* The rule with the expiration and the clock exchanged in duration_since.
ModificationTimePlusDeltaElapsed(rule, resolved_file, time) ==
    IF resolved_file.modified = None
    THEN Some(0)
    ELSE LET file_expiration == resolved_file.modified[1] + rule.file_cache_duration
         IN  Some(UnwrapOrDefault(DurationSince(time, file_expiration)))

\* ModificationTimePlusDeltaCacheHeaderRule::build_cache_header; time is what
\* SystemTime::now() returns.
ModificationTimePlusDeltaBuildCacheHeader(rule, resolved_file, time) ==
    IF resolved_file.modified = None
    THEN Some(0)
    ELSE LET file_expiration == resolved_file.modified[1] + rule.file_cache_duration
         IN  Some(UnwrapOrDefault(DurationSince(file_expiration, time)))

\* A fixed-time rule that counts its duration from the modification time.
FixedTimeFromModificationTime(rule, resolved_file, time) ==
    ModificationTimePlusDeltaBuildCacheHeader(rule, resolved_file, time)

\* FixedTimeCacheHeaderRule::build_cache_header.
FixedTimeBuildCacheHeader(rule, resolved_file, time) == Some(rule.file_cache_duration)

\* rule.build_cache_header(resolved_file) through the CacheRule trait object.
CacheRuleBuildCacheHeader(rule, resolved_file, time) ==
    IF rule.rule_type = "FixedTime"
    THEN FixedTimeBuildCacheHeader(rule, resolved_file, time)
    ELSE ModificationTimePlusDeltaBuildCacheHeader(rule, resolved_file, time)

\* StaticFileRulesService::new: the configured rules compiled in their order;
\* the first pattern that does not compile is the error returned.
StaticFileRulesServiceNew(configured) ==
    IF \E i \in 1..Len(configured) : ~RegexNew(configured[i].path_regex).ok
    THEN [ok |-> FALSE, cache_rules |-> <<>>, error |-> "error parsing regex"]
    ELSE [ok |-> TRUE,
          cache_rules |-> [i \in 1..Len(configured) |->
                              [rule_type |-> configured[i].rule_type,
                               path_regex |-> RegexNew(configured[i].path_regex).regex,
                               file_cache_duration |-> configured[i].duration]],
          error |-> "none"]

\* Iterator::find: the index of the first rule that matches, 0 when none does.
RECURSIVE FindRule(_, _, _)
FindRule(cache_rules, str_path, i) ==
    IF i > Len(cache_rules) THEN 0
    ELSE IF CacheRuleMatches(cache_rules[i], str_path) THEN i
    ELSE FindRule(cache_rules, str_path, i + 1)

\* build_cache_header answering with the last rule that matches.
BuildCacheHeaderLastMatch(service, resolved_file, time) ==
    LET hits == {i \in 1..Len(service.cache_rules) :
                    CacheRuleMatches(service.cache_rules[i], resolved_file.path)}
    IN  IF hits = {} THEN None
        ELSE CacheRuleBuildCacheHeader(
                service.cache_rules[CHOOSE i \in hits : \A j \in hits : j <= i],
                resolved_file, time)

\* StaticFileRulesService::build_cache_header.
BuildCacheHeader(service, resolved_file, time) ==
    LET found == FindRule(service.cache_rules, resolved_file.path, 1)
    IN  IF found = 0 THEN None
        ELSE CacheRuleBuildCacheHeader(service.cache_rules[found], resolved_file, time)

\* ---------------------------------------------- static files: the handler

\* static_file_configuration.client_error_page_path(): "/error.html".
ClientErrorPagePath == <<"/", "e", "r", "r", "o", "r", ".", "h", "t", "m", "l">>

\* const DEFAULT_CACHE_DURATION_SECONDS.
DEFAULT_CACHE_DURATION_SECONDS == 60 * 60

\* const VNSTAT_PNG_CACHE_DURATION, in ticks of the clock.
VNSTAT_PNG_CACHE_DURATION == 15 * 60 * TicksPerSecond

\* Duration::as_secs: the whole seconds of a duration.
AsSecs(duration) == duration \div TicksPerSecond

\* CacheControl::NoCache, and what a response carries without and with the seconds
\* ResponseBuilder::cache_headers was given.
NoCache == [directive |-> "no-cache", seconds |-> 0]

NoDirective == [directive |-> "none", seconds |-> 0]

MaxAge(seconds) == [directive |-> "max-age", seconds |-> seconds]

\* response_utils::build_status_code_response(status, cache_control): an empty
\* body under the status.
BuildStatusCodeResponse(status_code, cache_control) ==
    [status |-> status_code, location |-> <<>>, cache |-> cache_control, body |-> "empty"]

\* response_utils::build_premanent_redirect_response(location, cache_control).
BuildPermanentRedirectResponse(location, cache_control) ==
    [status |-> "PERMANENT_REDIRECT", location |-> location, cache |-> cache_control,
     body |-> "empty"]

\* StaticFileHandler::build_client_error_page_response.
BuildClientErrorPageResponse ==
    BuildPermanentRedirectResponse(ClientErrorPagePath, NoCache)

\* handle_resolve_errors letting a denied permission through to the file
\* response.
HandleResolveErrorsNotFoundOnly(resolve_result) ==
    CASE resolve_result.kind = "MethodNotMatched" ->
            Some(BuildStatusCodeResponse("BAD_REQUEST", NoCache))
      [] resolve_result.kind = "NotFound" -> Some(BuildClientErrorPageResponse)
      [] OTHER -> None

\* StaticFileHandler::handle_resolve_errors.
HandleResolveErrors(resolve_result) ==
    CASE resolve_result.kind = "MethodNotMatched" ->
            Some(BuildStatusCodeResponse("BAD_REQUEST", NoCache))
      [] resolve_result.kind \in {"NotFound", "PermissionDenied"} ->
            Some(BuildClientErrorPageResponse)
      [] OTHER -> None

\* The text block_dot_paths looks at: the file's path or the redirect target.
DotPathText(resolve_result) ==
    CASE resolve_result.kind = "Found" -> Some(resolve_result.file.path)
      [] resolve_result.kind = "IsDirectory" -> Some(resolve_result.redirect_to)
      [] OTHER -> None

\* block_dot_paths looking at the start of the path only.
BlockDotPathsLeadingOnly(resolve_result) ==
    LET str_path_option == DotPathText(resolve_result)
    IN  IF str_path_option # None /\ StartsWith(str_path_option[1], <<".">>)
        THEN Some(BuildClientErrorPageResponse)
        ELSE None

\* StaticFileHandler::block_dot_paths.
BlockDotPaths(resolve_result) ==
    LET str_path_option == DotPathText(resolve_result)
    IN  IF /\ str_path_option # None
           /\ \/ StartsWith(str_path_option[1], <<".">>)
              \/ Contains(str_path_option[1], <<"/", ".">>)
        THEN Some(BuildClientErrorPageResponse)
        ELSE None

\* StaticFileHandler::build_cache_headers: seconds for the Cache-Control of a
\* file found; time is what SystemTime::now() returns. The seconds are far
\* below 2^32, where the conversion to u32 keeps them.
BuildCacheHeaders(resolve_result, time) ==
    IF resolve_result.kind = "Found"
    THEN LET str_path == resolve_result.file.path
         IN  IF ~(/\ Contains(str_path, <<"v", "n", "s", "t", "a", "t", "/">>)
                  /\ EndsWith(str_path, <<".", "p", "n", "g">>))
             THEN Some(DEFAULT_CACHE_DURATION_SECONDS)
             ELSE IF resolve_result.file.modified = None
                  THEN Some(0)
                  ELSE LET file_expiration ==
                               resolve_result.file.modified[1] + VNSTAT_PNG_CACHE_DURATION
                           cache_duration ==
                               UnwrapOrDefault(DurationSince(file_expiration, time))
                       IN  Some(AsSecs(cache_duration))
    ELSE None

\* hyper_staticfile::ResponseBuilder::build with the cache headers set: the
\* file with max-age when seconds were given, a redirect for a directory, the
\* status of the outcome otherwise.
ResponseBuilderBuild(resolve_result, cache_headers) ==
    CASE resolve_result.kind = "Found" ->
            [status |-> "OK", location |-> <<>>,
             cache |-> IF cache_headers = None THEN NoDirective
                       ELSE MaxAge(cache_headers[1]),
             body |-> "file"]
      [] resolve_result.kind = "IsDirectory" ->
            [status |-> "MOVED_PERMANENTLY", location |-> resolve_result.redirect_to,
             cache |-> NoDirective, body |-> "empty"]
      [] resolve_result.kind = "MethodNotMatched" ->
            [status |-> "BAD_REQUEST", location |-> <<>>, cache |-> NoDirective, body |-> "empty"]
      [] resolve_result.kind = "NotFound" ->
            [status |-> "NOT_FOUND", location |-> <<>>, cache |-> NoDirective, body |-> "empty"]
      [] OTHER ->
            [status |-> "FORBIDDEN", location |-> <<>>, cache |-> NoDirective, body |-> "empty"]

\* StaticFileHandler::handle; resolved is the Result of resolve_request, time
\* the clock, built whether ResponseBuilder::build succeeds.
StaticFileHandlerHandle(resolved, time, built) ==
    IF resolved.kind = "Err"
    THEN BuildStatusCodeResponse("INTERNAL_SERVER_ERROR", NoCache)
    ELSE IF HandleResolveErrors(resolved) # None
         THEN HandleResolveErrors(resolved)[1]
         ELSE IF BlockDotPaths(resolved) # None
              THEN BlockDotPaths(resolved)[1]
              ELSE IF ~built
                   THEN BuildStatusCodeResponse("INTERNAL_SERVER_ERROR", NoCache)
                   ELSE ResponseBuilderBuild(resolved,
                                             BuildCacheHeaders(resolved, time))

\* ------------------------------------------------------------------- server

\* ConnectionHandler::new: the timers of a connection, in the order they are armed.
connection_timeout_durations ==
    <<"connection_max_lifetime", "connection_graceful_shutdown_timeout">>

\* The configurations the server is started with: cache rules that compile and
\* cache rules with a pattern that does not; command routes of their own and a
\* command route that repeats the route of connection_info.
ServerCacheRules ==
    {<<[rule_type |-> "FixedTime",
        path_regex |-> [kind |-> "suffix", text |-> <<".", "j", "s">>], duration |-> 3]>>,
     <<[rule_type |-> "FixedTime",
        path_regex |-> [kind |-> "unclosed group", text |-> <<"(">>], duration |-> 1]>>}

ServerCommandRoutes ==
    {<<Route("GET", "commands/ls", "CommandHandler")>>,
     <<Route("GET", "connection_info", "CommandHandler")>>}

\* The requests a client sends: the endpoint, the endpoint's path under another
\* method, and a path no route has.
RequestKinds ==
    {<<"GET", "connection_info">>, <<"POST", "connection_info">>, <<"GET", "index.html">>}

ServerInit ==
    /\ serverProtocol \in {"Http1", "Http2"}
    /\ nextConnectionId = 1
    /\ nextRequestId = 1
    /\ now = 0
    /\ tracker = <<>>
    /\ accepted = 0
    /\ pc = [t \in Streams |-> "free"]
    /\ guardId = [t \in Streams |-> 0]
    /\ iter = [t \in Streams |-> 0]
    /\ signals = [t \in Streams |-> <<>>]
    /\ exitPath = [t \in Streams |-> "none"]
    /\ removeCalls = [t \in Streams |-> 0]
    /\ inflight = [t \in Streams |-> {}]
    /\ response = NoResponse
    /\ mainPc = "read_configuration"
    /\ completed = {}
    /\ fatal = "none"
    /\ exitStatus = None
    /\ calls = [t \in Streams |-> 0]
    /\ requestIds = <<>>

\* What the tasks of the process hold: everything but the configuration, the
\* count of accepted streams and try_main's own variables.
taskVars == <<nextConnectionId, nextRequestId, now, tracker, pc, guardId, iter, signals,
              exitPath, removeCalls, inflight, response, calls, requestIds>>

\* main: try_main returned the error of step; it is logged and the process ends
\* with std::process::exit(1), and with it every task and all they held.
ProcessExit(step) ==
    /\ mainPc' = "exited"
    /\ fatal' = step
    /\ exitStatus' = Some(1)
    /\ UNCHANGED completed
    /\ nextConnectionId' = 1
    /\ nextRequestId' = 1
    /\ now' = 0
    /\ tracker' = <<>>
    /\ pc' = [t \in Streams |-> "free"]
    /\ guardId' = [t \in Streams |-> 0]
    /\ iter' = [t \in Streams |-> 0]
    /\ signals' = [t \in Streams |-> <<>>]
    /\ exitPath' = [t \in Streams |-> "none"]
    /\ removeCalls' = [t \in Streams |-> 0]
    /\ inflight' = [t \in Streams |-> {}]
    /\ response' = NoResponse
    /\ calls' = [t \in Streams |-> 0]
    /\ requestIds' = <<>>

\* try_main going on to the step after one that returned Ok.
StepCompleted(step, next) ==
    /\ mainPc' = next
    /\ completed' = completed \union {step}
    /\ UNCHANGED <<fatal, exitStatus, taskVars>>

\* try_main: the command line argument and read_configuration.
TryMainReadConfiguration(ok) ==
    /\ mainPc = "read_configuration"
    /\ IF ok
       THEN StepCompleted("read_configuration", "create_rules_service_instance")
       ELSE ProcessExit("read_configuration")
    /\ UNCHANGED <<serverProtocol, accepted>>
    /\ UNCHANGED <<trackerVars, routerVars, staticVars>>

\* try_main going on to create_handlers whatever the rules service returned.
TryMainCreateRulesServiceUnchecked ==
    /\ mainPc = "create_rules_service_instance"
    /\ rulesService' = StaticFileRulesServiceNew(cacheRules)
    /\ StepCompleted("create_rules_service_instance", "create_handlers")
    /\ UNCHANGED <<serverProtocol, accepted>>
    /\ UNCHANGED <<cacheRules, resolveResult, clock, buildOk, cacheHeader, staticResponse>>
    /\ UNCHANGED <<trackerVars, routerVars>>

\* try_main: create_rules_service_instance()?.
TryMainCreateRulesService ==
    /\ mainPc = "create_rules_service_instance"
    /\ rulesService' = StaticFileRulesServiceNew(cacheRules)
    /\ IF StaticFileRulesServiceNew(cacheRules).ok
       THEN StepCompleted("create_rules_service_instance", "create_handlers")
       ELSE ProcessExit("create_rules_service_instance")
    /\ UNCHANGED <<serverProtocol, accepted>>
    /\ UNCHANGED <<cacheRules, resolveResult, clock, buildOk, cacheHeader, staticResponse>>
    /\ UNCHANGED <<trackerVars, routerVars>>

\* try_main: create_handlers().await?, then Server::new.
TryMainCreateHandlers ==
    /\ mainPc = "create_handlers"
    /\ router' = CreateHandlers(commandRoutes, requestInfoRoutes)
    /\ IF CreateHandlers(commandRoutes, requestInfoRoutes).ok
       THEN StepCompleted("create_handlers", "bind")
       ELSE ProcessExit("create_handlers")
    /\ UNCHANGED <<serverProtocol, accepted>>
    /\ UNCHANGED <<commandRoutes, requestInfoRoutes, dispatched>>
    /\ UNCHANGED <<trackerVars, staticVars>>

\* TCPServer::run before its loop: TcpListener::bind and local_addr.
TCPServerBind(ok) ==
    /\ mainPc = "bind"
    /\ IF ok
       THEN StepCompleted("bind", "accept")
       ELSE ProcessExit("bind")
    /\ UNCHANGED <<serverProtocol, accepted>>
    /\ UNCHANGED <<trackerVars, routerVars, staticVars>>

\* The accept loop of TCPServer::run: accept().await returned an error, which
\* run returns.
TCPServerAcceptError ==
    /\ mainPc = "accept"
    /\ response = NoResponse
    /\ ProcessExit("accept")
    /\ UNCHANGED <<serverProtocol, accepted>>
    /\ UNCHANGED <<trackerVars, routerVars, staticVars>>

\* The accept loop spawning the connection task without add_connection: the
\* task serves a connection the tracker does not hold.
TCPServerRunUnregistered(nodelayOk) ==
    /\ response = NoResponse
    /\ mainPc = "accept"
    /\ accepted < MaxConns
    /\ accepted' = accepted + 1
    /\ IF nodelayOk
       THEN /\ nextConnectionId' = nextConnectionId + 1
            /\ now' = now + 1
            /\ guardId' = [guardId EXCEPT ![accepted + 1] = nextConnectionId]
            /\ pc' = [pc EXCEPT ![accepted + 1] = "serving"]
            /\ UNCHANGED tracker
       ELSE /\ pc' = [pc EXCEPT ![accepted + 1] = "rejected"]
            /\ UNCHANGED <<tracker, nextConnectionId, now, guardId>>
    /\ UNCHANGED <<serverProtocol, nextRequestId, iter, signals, exitPath,
                   removeCalls, inflight, mainVars, calls, requestIds>>
    /\ UNCHANGED response
    /\ UNCHANGED <<trackerVars, routerVars, staticVars>>

\* One iteration of the accept loop of TCPServer::run: accept, set_nodelay
\* (a failure drops the stream and continues), add_connection, spawn. The loop
\* is the only caller of add_connection here, so the id and the insert are one
\* step.
TCPServerRun(nodelayOk) ==
    /\ response = NoResponse
    /\ mainPc = "accept"
    /\ accepted < MaxConns
    /\ accepted' = accepted + 1
    /\ IF nodelayOk
       THEN /\ tracker' = InsertConnection(tracker,
                    ConnectionInfo(nextConnectionId, now, serverProtocol, "Tcp"))
            /\ nextConnectionId' = nextConnectionId + 1
            /\ now' = now + 1
            /\ guardId' = [guardId EXCEPT ![accepted + 1] = nextConnectionId]
            /\ pc' = [pc EXCEPT ![accepted + 1] = "serving"]
       ELSE /\ pc' = [pc EXCEPT ![accepted + 1] = "rejected"]
            /\ UNCHANGED <<tracker, nextConnectionId, now, guardId>>
    /\ UNCHANGED <<serverProtocol, nextRequestId, iter, signals, exitPath,
                   removeCalls, inflight, mainVars, calls, requestIds>>
    /\ UNCHANGED response
    /\ UNCHANGED <<trackerVars, routerVars, staticVars>>

\* Drop of the ConnectionGuard of stream t: remove_connection for its id.
ConnectionGuardDrop(t) ==
    /\ tracker' = RemoveConnection(tracker, guardId[t])
    /\ removeCalls' = [removeCalls EXCEPT ![t] = @ + 1]

\* handle_connection ending with its guard kept alive when the timers ran out.
EndHandleConnectionLeak(t, how) ==
    /\ pc' = [pc EXCEPT ![t] = "done"]
    /\ exitPath' = [exitPath EXCEPT ![t] = how]
    /\ inflight' = [inflight EXCEPT ![t] = IF serverProtocol = "Http1" THEN {} ELSE @]
    /\ calls' = [calls EXCEPT ![t] = 0]
    /\ IF how = "exhausted"
       THEN UNCHANGED <<tracker, removeCalls>>
       ELSE ConnectionGuardDrop(t)

\* handle_connection ending with a remove_connection call of its own before the
\* guard is dropped.
EndHandleConnectionRemoveTwice(t, how) ==
    /\ pc' = [pc EXCEPT ![t] = "done"]
    /\ exitPath' = [exitPath EXCEPT ![t] = how]
    /\ inflight' = [inflight EXCEPT ![t] = IF serverProtocol = "Http1" THEN {} ELSE @]
    /\ calls' = [calls EXCEPT ![t] = 0]
    /\ tracker' = RemoveConnection(RemoveConnection(tracker, guardId[t]), guardId[t])
    /\ removeCalls' = [removeCalls EXCEPT ![t] = @ + 2]

\* The end of handle_connection, on every path: the locals go out of scope. The
\* protocol engine is dropped, and with it the HTTP/1.1 request it was driving
\* (HTTP/2 requests run as tasks of their own); the guard is dropped. The count
\* of service calls is kept for a live connection only.
EndHandleConnection(t, how) ==
    /\ pc' = [pc EXCEPT ![t] = "done"]
    /\ exitPath' = [exitPath EXCEPT ![t] = how]
    /\ inflight' = [inflight EXCEPT ![t] = IF serverProtocol = "Http1" THEN {} ELSE @]
    /\ calls' = [calls EXCEPT ![t] = 0]
    /\ ConnectionGuardDrop(t)

\* RequestIDFactory::new_request_id: an atomic fetch-and-increment.
NewRequestId == nextRequestId

\* The service closure handing out a request id without counting the request.
ServiceCallUncounted(t) ==
    /\ response = NoResponse
    /\ pc[t] = "serving"
    /\ signals[t] = <<>>
    /\ nextRequestId <= MaxRequests
    /\ serverProtocol = "Http1" => inflight[t] = {}
    /\ calls' = [calls EXCEPT ![t] = @ + 1]
    /\ requestIds' = Append(requestIds, NewRequestId)
    /\ nextRequestId' = nextRequestId + 1
    /\ inflight' = [inflight EXCEPT ![t] = @ \union {NewRequestId}]
    /\ UNCHANGED <<serverProtocol, nextConnectionId, now, tracker, accepted, pc, guardId,
                   iter, signals, exitPath, removeCalls, mainVars>>
    /\ UNCHANGED response
    /\ UNCHANGED <<trackerVars, routerVars, staticVars>>

\* The service closure of handle_connection, called by the protocol engine for a
\* request it read: the request count, then a request id, then handle_request.
\* The engine takes no new request once graceful shutdown was asked of it, and
\* an HTTP/1.1 engine drives one request at a time.
ServiceCall(t) ==
    /\ response = NoResponse
    /\ pc[t] = "serving"
    /\ signals[t] = <<>>
    /\ nextRequestId <= MaxRequests
    /\ serverProtocol = "Http1" => inflight[t] = {}
    /\ calls' = [calls EXCEPT ![t] = @ + 1]
    /\ tracker' = IncrementRequestCount(tracker, guardId[t])
    /\ requestIds' = Append(requestIds, NewRequestId)
    /\ nextRequestId' = nextRequestId + 1
    /\ inflight' = [inflight EXCEPT ![t] = @ \union {NewRequestId}]
    /\ UNCHANGED <<serverProtocol, nextConnectionId, now, accepted, pc, guardId, iter,
                   signals, exitPath, removeCalls, mainVars>>
    /\ UNCHANGED response
    /\ UNCHANGED <<trackerVars, routerVars, staticVars>>

\* What the resolver returns for the request of a served file, and for one it
\* fails on with an I/O error.
ResolveRequest(fails) ==
    IF fails THEN [kind |-> "Err"]
    ELSE [kind |-> "Found", file |-> [path |-> <<"a", ".", "j", "s">>, modified |-> None]]

\* The response of the handler the router chose, as handle_request returns it:
\* the connection_info handler serializes the entries all, the default handler
\* resolves a file; failed tells whether the serialization or the resolver
\* failed.
HandlerResponse(t, handler, all, failed) ==
    IF handler = "ConnectionInfoHandler"
    THEN LET built == BuildJsonResponse(ConnectionInfoHandle(all), ~failed)
         IN  [stream |-> t, handler |-> handler, status |-> built.status,
              failed |-> failed, service_result |-> "Ok",
              connections |-> built.connections]
    ELSE [stream |-> t, handler |-> handler,
          status |-> StaticFileHandlerHandle(ResolveRequest(failed), clock, TRUE).status,
          failed |-> failed, service_result |-> "Ok", connections |-> <<>>]

\* handle_request returning the handler's failure to the protocol engine, which
\* ends the connection with it.
HandleRequestPropagatingFailure(t, r, kind, fails) ==
    /\ response = NoResponse
    /\ r \in inflight[t]
    /\ serverProtocol = "Http1" => pc[t] = "serving"
    /\ LET handler == RouterDispatch(router, kind[1], kind[2])
       IN  IF handler = "ConnectionInfoHandler" /\ ~fails
           THEN \E all \in GetAllConnections(tracker) :
                    response' = HandlerResponse(t, handler, all, fails)
           ELSE response' = [HandlerResponse(t, handler, <<>>, fails)
                                EXCEPT !.service_result = IF fails THEN "Err" ELSE "Ok"]
    /\ IF fails /\ pc[t] = "serving"
       THEN EndHandleConnection(t, "error")
       ELSE /\ inflight' = [inflight EXCEPT ![t] = @ \ {r}]
            /\ UNCHANGED <<tracker, pc, exitPath, removeCalls, calls>>
    /\ UNCHANGED <<serverProtocol, nextConnectionId, nextRequestId, now,
                   accepted, guardId, iter, signals, mainVars, requestIds>>
    /\ UNCHANGED <<trackerVars, routerVars, staticVars>>

\* ConnectionHandler::handle_request for request r of stream t, whose method and
\* path are kind: the router's handler produces the response, a 500 when what
\* it does fails, and Ok(response) is returned.
HandleRequest(t, r, kind, fails) ==
    /\ response = NoResponse
    /\ r \in inflight[t]
    /\ serverProtocol = "Http1" => pc[t] = "serving"
    /\ inflight' = [inflight EXCEPT ![t] = @ \ {r}]
    /\ LET handler == RouterDispatch(router, kind[1], kind[2])
       IN  IF handler = "ConnectionInfoHandler" /\ ~fails
           THEN \E all \in GetAllConnections(tracker) :
                    response' = HandlerResponse(t, handler, all, fails)
           ELSE response' = HandlerResponse(t, handler, <<>>, fails)
    /\ UNCHANGED <<serverProtocol, nextConnectionId, nextRequestId, now, tracker,
                   accepted, pc, guardId, iter, signals, exitPath, removeCalls,
                   mainVars, calls, requestIds>>
    /\ UNCHANGED <<trackerVars, routerVars, staticVars>>

\* An engine error taken for an error of the listener: the accept loop ends
\* with it.
HandleConnectionCompletedEndsListener(t, res) ==
    /\ response = NoResponse
    /\ pc[t] = "serving"
    /\ EndHandleConnection(t, res)
    /\ mainPc' = IF res = "error" THEN "exited" ELSE mainPc
    /\ UNCHANGED <<completed, fatal, exitStatus>>
    /\ UNCHANGED <<serverProtocol, nextConnectionId, nextRequestId, now, accepted,
                   guardId, iter, signals, requestIds>>
    /\ UNCHANGED response
    /\ UNCHANGED <<trackerVars, routerVars, staticVars>>

\* select!, first branch: the protocol engine completed, with or without an
\* error; break, and the function ends.
HandleConnectionCompleted(t, res) ==
    /\ response = NoResponse
    /\ pc[t] = "serving"
    /\ EndHandleConnection(t, res)
    /\ UNCHANGED <<serverProtocol, nextConnectionId, nextRequestId, now, accepted,
                   guardId, iter, signals, mainVars, requestIds>>
    /\ UNCHANGED response
    /\ UNCHANGED <<trackerVars, routerVars, staticVars>>

\* The timer branch that goes to the next timer without the shutdown call.
HandleConnectionTimeoutNoSignal(t) ==
    /\ response = NoResponse
    /\ pc[t] = "serving"
    /\ iter[t] < Len(connection_timeout_durations)
    /\ iter' = [iter EXCEPT ![t] = @ + 1]
    /\ UNCHANGED signals
    /\ IF iter[t] + 1 = Len(connection_timeout_durations)
       THEN EndHandleConnection(t, "exhausted")
       ELSE UNCHANGED <<pc, exitPath, inflight, tracker, removeCalls, calls>>
    /\ UNCHANGED <<serverProtocol, nextConnectionId, nextRequestId, now, accepted,
                   guardId, mainVars, requestIds>>
    /\ UNCHANGED response
    /\ UNCHANGED <<trackerVars, routerVars, staticVars>>

\* The timer branch taken although the engine completed: a loop without the
\* break of the first branch.
HandleConnectionTimeoutAfterCompleted(t) ==
    /\ response = NoResponse
    /\ pc[t] \in {"serving", "done"}
    /\ iter[t] < Len(connection_timeout_durations)
    /\ signals' = [signals EXCEPT ![t] =
                        Append(@, connection_timeout_durations[iter[t] + 1])]
    /\ iter' = [iter EXCEPT ![t] = @ + 1]
    /\ IF pc[t] = "serving" /\ iter[t] + 1 = Len(connection_timeout_durations)
       THEN EndHandleConnection(t, "exhausted")
       ELSE UNCHANGED <<pc, exitPath, inflight, tracker, removeCalls, calls>>
    /\ UNCHANGED <<serverProtocol, nextConnectionId, nextRequestId, now, accepted,
                   guardId, mainVars, requestIds>>
    /\ UNCHANGED response
    /\ UNCHANGED <<trackerVars, routerVars, staticVars>>

\* The timer branch ending handle_connection at the first firing: a single
\* stage, with no race against a next timer.
HandleConnectionTimeoutSingleStage(t) ==
    /\ response = NoResponse
    /\ pc[t] = "serving"
    /\ iter[t] < Len(connection_timeout_durations)
    /\ signals' = [signals EXCEPT ![t] =
                        Append(@, connection_timeout_durations[iter[t] + 1])]
    /\ iter' = [iter EXCEPT ![t] = @ + 1]
    /\ EndHandleConnection(t, "exhausted")
    /\ UNCHANGED <<serverProtocol, nextConnectionId, nextRequestId, now, accepted,
                   guardId, mainVars, requestIds>>
    /\ UNCHANGED response
    /\ UNCHANGED <<trackerVars, routerVars, staticVars>>

\* The timer branch dropping the requests in flight at every firing: a shutdown
\* that is not cooperative.
HandleConnectionTimeoutAbortsRequests(t) ==
    /\ response = NoResponse
    /\ pc[t] = "serving"
    /\ iter[t] < Len(connection_timeout_durations)
    /\ signals' = [signals EXCEPT ![t] =
                        Append(@, connection_timeout_durations[iter[t] + 1])]
    /\ iter' = [iter EXCEPT ![t] = @ + 1]
    /\ IF iter[t] + 1 = Len(connection_timeout_durations)
       THEN EndHandleConnection(t, "exhausted")
       ELSE /\ inflight' = [inflight EXCEPT ![t] = {}]
            /\ UNCHANGED <<pc, exitPath, tracker, removeCalls, calls>>
    /\ UNCHANGED <<serverProtocol, nextConnectionId, nextRequestId, now, accepted,
                   guardId, mainVars, requestIds>>
    /\ UNCHANGED response
    /\ UNCHANGED <<trackerVars, routerVars, staticVars>>

\* The timer branch going on to await the engine alone once the last timer
\* fired, instead of ending handle_connection.
HandleConnectionTimeoutAwaitEngine(t) ==
    /\ response = NoResponse
    /\ pc[t] = "serving"
    /\ iter[t] < Len(connection_timeout_durations)
    /\ signals' = [signals EXCEPT ![t] =
                        Append(@, connection_timeout_durations[iter[t] + 1])]
    /\ iter' = [iter EXCEPT ![t] = @ + 1]
    /\ UNCHANGED <<pc, exitPath, inflight, tracker, removeCalls, calls>>
    /\ UNCHANGED <<serverProtocol, nextConnectionId, nextRequestId, now, accepted,
                   guardId, mainVars, requestIds>>
    /\ UNCHANGED response
    /\ UNCHANGED <<trackerVars, routerVars, staticVars>>

\* select!, second branch: the sleep of the current timer elapsed first;
\* graceful_shutdown is called and the loop goes to the next timer. After the
\* last timer the loop is over and the function ends.
HandleConnectionTimeout(t) ==
    /\ response = NoResponse
    /\ pc[t] = "serving"
    /\ iter[t] < Len(connection_timeout_durations)
    /\ signals' = [signals EXCEPT ![t] =
                        Append(@, connection_timeout_durations[iter[t] + 1])]
    /\ iter' = [iter EXCEPT ![t] = @ + 1]
    /\ IF iter[t] + 1 = Len(connection_timeout_durations)
       THEN EndHandleConnection(t, "exhausted")
       ELSE UNCHANGED <<pc, exitPath, inflight, tracker, removeCalls, calls>>
    /\ UNCHANGED <<serverProtocol, nextConnectionId, nextRequestId, now, accepted,
                   guardId, mainVars, requestIds>>
    /\ UNCHANGED response
    /\ UNCHANGED <<trackerVars, routerVars, staticVars>>

\* The connection task unwinding or being cancelled while it waits in select!:
\* its future is dropped where it stands.
HandleConnectionUnwind(t) ==
    /\ response = NoResponse
    /\ pc[t] = "serving"
    /\ EndHandleConnection(t, "unwound")
    /\ UNCHANGED <<serverProtocol, nextConnectionId, nextRequestId, now, accepted,
                   guardId, iter, signals, mainVars, requestIds>>
    /\ UNCHANGED response
    /\ UNCHANGED <<trackerVars, routerVars, staticVars>>

\* The response handle_request returned goes to the protocol engine, which
\* writes it to the stream.
ResponseWritten ==
    /\ response # NoResponse
    /\ response' = NoResponse
    /\ UNCHANGED <<serverProtocol, nextConnectionId, nextRequestId, now, tracker,
                   accepted, pc, guardId, iter, signals, exitPath, removeCalls,
                   inflight, mainVars, calls, requestIds>>
    /\ UNCHANGED <<trackerVars, routerVars, staticVars>>

ServerNext ==
    \/ \E ok \in BOOLEAN : TryMainReadConfiguration(ok)
    \/ TryMainCreateRulesService
    \/ TryMainCreateHandlers
    \/ \E ok \in BOOLEAN : TCPServerBind(ok)
    \/ TCPServerAcceptError
    \/ \E nodelayOk \in BOOLEAN : TCPServerRun(nodelayOk)
    \/ \E t \in Streams : ServiceCall(t)
    \/ \E t \in Streams, kind \in RequestKinds, fails \in BOOLEAN :
            \E r \in inflight[t] : HandleRequest(t, r, kind, fails)
    \/ ResponseWritten
    \/ \E t \in Streams, res \in {"completed", "error"} : HandleConnectionCompleted(t, res)
    \/ \E t \in Streams : HandleConnectionTimeout(t)
    \/ \E t \in Streams : HandleConnectionUnwind(t)

\* ------------------------------------------- the tracker under concurrent calls

NoOp == [op |-> "none", id |-> 0, hit |-> FALSE]

NoLocals == [id |-> 0, todo |-> {}, snap |-> {}, seen |-> {}]

TrackerRest ==
    /\ lock = 0
    /\ cpc = [c \in Clients |-> "idle"]
    /\ creg = [c \in Clients |-> NoLocals]
    /\ issued = {}
    /\ added = 0
    /\ removed = FALSE
    /\ lastOp = NoOp
    /\ ops = 0

\* The tracker's contents after a mutation, noted by every snapshot in progress.
Observed(tr) ==
    [c \in Clients |->
        IF cpc[c] = "snapshot" THEN [creg[c] EXCEPT !.seen = @ \union {tr}] ELSE creg[c]]

CanCall(c) == cpc[c] = "idle"

CanMutate(c) == CanCall(c) /\ ops < MaxOps

\* An id taken from the size of the registry instead of the factory's counter.
NewConnectionIdFromSize(c) ==
    /\ CanMutate(c)
    /\ ops' = ops + 1
    /\ nextConnectionId' = nextConnectionId + 1
    /\ cpc' = [cpc EXCEPT ![c] = "add"]
    /\ creg' = [creg EXCEPT ![c] = [NoLocals EXCEPT !.id = Cardinality(DOMAIN tracker) + 1]]
    /\ lastOp' = NoOp
    /\ UNCHANGED <<tracker, now, lock, issued, added, removed>>
    /\ UNCHANGED <<serverRest, routerVars, staticVars>>

\* add_connection, first half: new_connection_id(), an atomic fetch-and-increment.
NewConnectionId(c) ==
    /\ CanMutate(c)
    /\ ops' = ops + 1
    /\ nextConnectionId' = nextConnectionId + 1
    /\ cpc' = [cpc EXCEPT ![c] = "add"]
    /\ creg' = [creg EXCEPT ![c] = [NoLocals EXCEPT !.id = nextConnectionId]]
    /\ lastOp' = NoOp
    /\ UNCHANGED <<tracker, now, lock, issued, added, removed>>
    /\ UNCHANGED <<serverRest, routerVars, staticVars>>

\* add_connection, second half: under the lock, the entry is inserted with the
\* current time; the guard bound to the id is returned.
AddConnection(c, protocol, socketType) ==
    /\ cpc[c] = "add"
    /\ lock = 0
    /\ LET tr == InsertConnection(tracker,
                    ConnectionInfo(creg[c].id, now, protocol, socketType))
       IN  /\ tracker' = tr
           /\ creg' = [Observed(tr) EXCEPT ![c] = NoLocals]
    /\ now' = now + 1
    /\ issued' = issued \union {creg[c].id}
    /\ added' = added + 1
    /\ cpc' = [cpc EXCEPT ![c] = "idle"]
    /\ lastOp' = NoOp
    /\ UNCHANGED <<nextConnectionId, lock, removed, ops>>
    /\ UNCHANGED <<serverRest, routerVars, staticVars>>

\* remove_connection(id) by client c, under the lock.
TrackerRemove(c, id) ==
    /\ CanMutate(c)
    /\ lock = 0
    /\ ops' = ops + 1
    /\ LET tr == RemoveConnection(tracker, id)
       IN  /\ tracker' = tr
           /\ creg' = [Observed(tr) EXCEPT ![c] = NoLocals]
    /\ cpc' = [cpc EXCEPT ![c] = "idle"]
    /\ removed' = TRUE
    /\ lastOp' = [op |-> "remove_connection", id |-> id, hit |-> id \in DOMAIN tracker]
    /\ UNCHANGED <<nextConnectionId, now, lock, issued, added>>
    /\ UNCHANGED <<serverRest, routerVars, staticVars>>

\* increment_request_count(id) by client c, under the lock.
TrackerIncrement(c, id) ==
    /\ CanMutate(c)
    /\ lock = 0
    /\ ops' = ops + 1
    /\ LET tr == IncrementRequestCount(tracker, id)
       IN  /\ tracker' = tr
           /\ creg' = [Observed(tr) EXCEPT ![c] = NoLocals]
    /\ cpc' = [cpc EXCEPT ![c] = "idle"]
    /\ lastOp' = [op |-> "increment_request_count", id |-> id,
                  hit |-> id \in DOMAIN tracker]
    /\ UNCHANGED <<nextConnectionId, now, lock, issued, added, removed>>
    /\ UNCHANGED <<serverRest, routerVars, staticVars>>

\* A snapshot that starts copying without taking the lock.
SnapshotBeginNoLock(c) ==
    /\ CanCall(c)
    /\ cpc' = [cpc EXCEPT ![c] = "snapshot"]
    /\ creg' = [creg EXCEPT ![c] =
                    [id |-> 0, todo |-> DOMAIN tracker, snap |-> {}, seen |-> {tracker}]]
    /\ UNCHANGED <<tracker, nextConnectionId, now, lock, issued, added, removed, lastOp, ops>>
    /\ UNCHANGED <<serverRest, routerVars, staticVars>>

\* snapshot, start: the lock is taken; the entries present are the ones to copy.
SnapshotBegin(c) ==
    /\ CanCall(c)
    /\ lock = 0
    /\ lock' = c
    /\ cpc' = [cpc EXCEPT ![c] = "snapshot"]
    /\ creg' = [creg EXCEPT ![c] =
                    [id |-> 0, todo |-> DOMAIN tracker, snap |-> {}, seen |-> {tracker}]]
    /\ UNCHANGED <<tracker, nextConnectionId, now, issued, added, removed, lastOp, ops>>
    /\ UNCHANGED <<serverRest, routerVars, staticVars>>

\* snapshot, one entry copied: the entry as it is now, if it is still there.
SnapshotCopy(c, id) ==
    /\ cpc[c] = "snapshot"
    /\ id \in creg[c].todo
    /\ creg' = [creg EXCEPT ![c].todo = @ \ {id},
                            ![c].snap = IF id \in DOMAIN tracker
                                        THEN @ \union {tracker[id]} ELSE @]
    /\ UNCHANGED <<tracker, nextConnectionId, now, lock, cpc, issued, added, removed,
                   lastOp, ops>>
    /\ UNCHANGED <<serverRest, routerVars, staticVars>>

\* snapshot, end: the lock is released and the copy in creg[c].snap returned.
SnapshotEnd(c) ==
    /\ cpc[c] = "snapshot"
    /\ creg[c].todo = {}
    /\ lock' = IF lock = c THEN 0 ELSE lock
    /\ cpc' = [cpc EXCEPT ![c] = "idle"]
    /\ creg' = [creg EXCEPT ![c] = NoLocals]
    /\ UNCHANGED <<tracker, nextConnectionId, now, issued, added, removed, lastOp, ops>>
    /\ UNCHANGED <<serverRest, routerVars, staticVars>>

TrackerNext ==
    \/ \E c \in Clients : NewConnectionId(c)
    \/ \E c \in Clients : AddConnection(c, serverProtocol, "Tcp")
    \/ \E c \in Clients, id \in 1..nextConnectionId : TrackerRemove(c, id)
    \/ \E c \in Clients, id \in 1..nextConnectionId : TrackerIncrement(c, id)
    \/ \E c \in Clients : SnapshotBegin(c)
    \/ \E c \in Clients : \E id \in creg[c].todo : SnapshotCopy(c, id)
    \/ \E c \in Clients : SnapshotEnd(c)

\* ------------------------------------------------- router construction, dispatch

Unbuilt == [ok |-> FALSE, routes |-> <<>>, error |-> "unbuilt"]

NoDispatch == [method |-> "none", path |-> "none", handler |-> "none"]

RouterRest ==
    /\ commandRoutes = <<>>
    /\ requestInfoRoutes = <<>>
    /\ router = Unbuilt
    /\ dispatched = NoDispatch

\* The route lists of at most n routes a module can contribute, each route with
\* the module's handler.
RouteLists(n, handler) ==
    UNION {[1..k -> {Route(m, p, handler) : m \in Methods, p \in Paths}] : k \in 0..n}

RouterInit ==
    /\ commandRoutes \in RouteLists(MaxCommandRoutes, "CommandHandler")
    /\ requestInfoRoutes \in RouteLists(MaxRequestInfoRoutes, "RequestInfoHandler")
    /\ router = Unbuilt
    /\ dispatched = NoDispatch

\* try_main: create_handlers runs once, before the server.
RunCreateHandlers ==
    /\ router = Unbuilt
    /\ router' = CreateHandlers(commandRoutes, requestInfoRoutes)
    /\ UNCHANGED <<commandRoutes, requestInfoRoutes, dispatched>>
    /\ UNCHANGED <<serverVars, trackerVars, staticVars>>

\* A request dispatched by the constructed router.
RunDispatch(method, path) ==
    /\ router.ok
    /\ dispatched' = [method |-> method, path |-> path,
                      handler |-> RouterDispatch(router, method, path)]
    /\ UNCHANGED <<commandRoutes, requestInfoRoutes, router>>
    /\ UNCHANGED <<serverVars, trackerVars, staticVars>>

RouterNext ==
    \/ RunCreateHandlers
    \/ \E m \in Methods, p \in Paths \union {"index.html"} : RunDispatch(m, p)

\* ------------------------------------------- static files: rules and requests

\* The relative paths the resolver finds files under ("s/a.js" is written as
\* its characters).
FilePaths ==
    {<<".", "e", "n", "v">>,
     <<"a", "/", ".", "g", "i", "t", "/", "c">>,
     <<"a", ".", "j", "s">>,
     <<"s", "/", "a", ".", "j", "s">>,
     <<"a", ".", "b", "/", "c">>,
     <<"v", "n", "s", "t", "a", "t", "/", "d", ".", "p", "n", "g">>}

\* The targets of the redirect the resolver asks for on a directory.
RedirectTargets ==
    {<<"/", "d", "/">>,
     <<"/", ".", "g", "i", "t", "/">>,
     <<"/", "a", "/", ".", "d", "/">>}

\* Instants of the clock and of modification times, in ticks: around the
\* durations of the rules and around VNSTAT_PNG_CACHE_DURATION.
Times == {0, 1, 3, VNSTAT_PNG_CACHE_DURATION, VNSTAT_PNG_CACHE_DURATION + 3}

\* The cache rules a configuration is made of; the last one has a pattern that
\* does not compile. Durations are in ticks.
ConfiguredRules ==
    {[rule_type |-> "FixedTime",
      path_regex |-> [kind |-> "suffix", text |-> <<".", "j", "s">>], duration |-> 3],
     [rule_type |-> "ModTimePlusDelta",
      path_regex |-> [kind |-> "prefix", text |-> <<"v", "n", "s", "t", "a", "t", "/">>],
      duration |-> 2],
     [rule_type |-> "ModTimePlusDelta",
      path_regex |-> [kind |-> "contains", text |-> <<"a">>], duration |-> 1],
     [rule_type |-> "FixedTime",
      path_regex |-> [kind |-> "contains", text |-> <<>>], duration |-> 1],
     [rule_type |-> "FixedTime",
      path_regex |-> [kind |-> "unclosed group", text |-> <<"(">>], duration |-> 1]}

RuleLists == UNION {[1..k -> ConfiguredRules] : k \in 0..MaxRules}

\* Result<ResolveResult, io::Error> of resolver.resolve_request.
ResolveResults ==
    {[kind |-> k] : k \in {"Err", "MethodNotMatched", "NotFound", "PermissionDenied"}}
    \union {[kind |-> "Found", file |-> [path |-> p, modified |-> m]] :
                p \in FilePaths, m \in {None} \union {Some(t) : t \in Times}}
    \union {[kind |-> "IsDirectory", redirect_to |-> r] : r \in RedirectTargets}

NoRulesService == [ok |-> FALSE, cache_rules |-> <<>>, error |-> "unset"]

NoCacheHeader == [asked |-> FALSE, header |-> None]

NoStaticResponse == [status |-> "none", location |-> <<>>, cache |-> NoDirective, body |-> "empty"]

StaticRest ==
    /\ cacheRules = <<>>
    /\ rulesService = NoRulesService
    /\ resolveResult = [kind |-> "NotFound"]
    /\ clock = 0
    /\ buildOk = TRUE
    /\ cacheHeader = NoCacheHeader
    /\ staticResponse = NoStaticResponse

StaticInit ==
    /\ cacheRules \in RuleLists
    /\ rulesService = NoRulesService
    /\ resolveResult \in ResolveResults
    /\ clock \in Times
    /\ buildOk \in BOOLEAN
    /\ cacheHeader = NoCacheHeader
    /\ staticResponse = NoStaticResponse

\* create_rules_service_instance: the service is built from the configuration
\* and set once; an error of the build is returned.
CreateRulesServiceInstance ==
    /\ rulesService = NoRulesService
    /\ rulesService' = StaticFileRulesServiceNew(cacheRules)
    /\ UNCHANGED <<cacheRules, resolveResult, clock, buildOk, cacheHeader, staticResponse>>
    /\ UNCHANGED <<serverVars, trackerVars, routerVars>>

\* rules_service_instance().build_cache_header(resolved_file) for the file the
\* request resolved to.
RulesServiceBuildCacheHeader ==
    /\ rulesService.ok
    /\ resolveResult.kind = "Found"
    /\ ~cacheHeader.asked
    /\ cacheHeader' = [asked |-> TRUE,
                       header |-> BuildCacheHeader(rulesService, resolveResult.file, clock)]
    /\ UNCHANGED <<cacheRules, rulesService, resolveResult, clock, buildOk, staticResponse>>
    /\ UNCHANGED <<serverVars, trackerVars, routerVars>>

\* StaticFileHandler::handle for the request; the handler exists once startup
\* has built the rules service.
StaticFileHandle ==
    /\ rulesService.ok
    /\ staticResponse = NoStaticResponse
    /\ staticResponse' = StaticFileHandlerHandle(resolveResult, clock, buildOk)
    /\ UNCHANGED <<cacheRules, rulesService, resolveResult, clock, buildOk, cacheHeader>>
    /\ UNCHANGED <<serverVars, trackerVars, routerVars>>

StaticNext ==
    \/ CreateRulesServiceInstance
    \/ RulesServiceBuildCacheHeader
    \/ StaticFileHandle

\* ------------------------------------------------------------ specifications

\* The configuration try_main starts from.
ServerConfiguration ==
    /\ commandRoutes \in ServerCommandRoutes
    /\ requestInfoRoutes = <<Route("GET", "request_info", "RequestInfoHandler")>>
    /\ router = Unbuilt
    /\ dispatched = NoDispatch
    /\ cacheRules \in ServerCacheRules
    /\ rulesService = NoRulesService
    /\ resolveResult = [kind |-> "NotFound"]
    /\ clock = 0
    /\ buildOk = TRUE
    /\ cacheHeader = NoCacheHeader
    /\ staticResponse = NoStaticResponse

Init == ServerInit /\ TrackerRest /\ ServerConfiguration

Next == ServerNext

Spec == Init /\ [][Next]_vars

\* The server under the scheduling of the runtime: the sleep of a select! that
\* stays pending elapses, and a response handed to the engine is written. Of
\* the engine's completion and of the handling of a request nothing is assumed.
FairSpec ==
    /\ Spec
    /\ \A t \in Streams : WF_vars(HandleConnectionTimeout(t))
    /\ WF_vars(ResponseWritten)

TrackerInit == ServerInit /\ TrackerRest /\ RouterRest /\ StaticRest

TrackerSpec == TrackerInit /\ [][TrackerNext]_vars

RouterSpecInit ==
    ServerInit /\ serverProtocol = "Http1" /\ TrackerRest /\ RouterInit /\ StaticRest

RouterSpec == RouterSpecInit /\ [][RouterNext]_vars

StaticSpecInit ==
    ServerInit /\ serverProtocol = "Http1" /\ TrackerRest /\ RouterRest /\ StaticInit

StaticSpec == StaticSpecInit /\ [][StaticNext]_vars

\* -------------------------------------------------------------------- claims

\* C1: timeout escalation. The graceful-shutdown signals of a connection are a
\* prefix of the configured timers (one signal per timer, in configured order,
\* never more than there are timers); a connection still served has one signal
\* per timer that fired; and a connection whose engine never completed, ended
\* by the timers running out, has received exactly one signal per timer and is
\* no longer managed.
TimeoutEscalation ==
    \A t \in Streams :
        /\ IsPrefix(signals[t], connection_timeout_durations)
        /\ pc[t] = "serving" => Len(signals[t]) = iter[t]
        /\ exitPath[t] = "exhausted" =>
                signals[t] = connection_timeout_durations /\ pc[t] = "done"

TimeoutEscalationWitness ==
    \E t \in Streams :
        /\ exitPath[t] = "exhausted"
        /\ signals[t] = <<"connection_max_lifetime", "connection_graceful_shutdown_timeout">>

\* C2: guard release on every exit path. No finished connection task (ended by
\* completion, by an error, by the timers running out, or unwound) has its id
\* still in the tracker.
GuardReleasedOnEveryExit ==
    \A t \in Streams : pc[t] = "done" => guardId[t] \notin DOMAIN tracker

GuardReleasedWitness ==
    \E t, u \in Streams :
        /\ exitPath[t] = "exhausted"
        /\ exitPath[u] = "error"
        /\ tracker = <<>>

\* C3: remove_connection runs exactly once per guard. A guard whose task has
\* ended, on any path including an unwind, has had remove_connection called
\* once; a guard still held has had it called zero times; never twice.
RemoveConnectionExactlyOnce ==
    \A t \in Streams : removeCalls[t] = IF pc[t] = "done" THEN 1 ELSE 0

RemoveExactlyOnceWitness ==
    \E t, u \in Streams :
        /\ exitPath[t] = "unwound"
        /\ removeCalls[t] = 1
        /\ pc[u] = "serving"
        /\ guardId[u] \in DOMAIN tracker

\* C4: concurrent adds. The ids of the guards add_connection returned are
\* pairwise distinct (as many ids as guards); and with no removal so far and no
\* addition in progress, a snapshot holds exactly one entry per completed
\* addition, under the ids that were returned, each id once.
ConcurrentAddsDistinct ==
    /\ Cardinality(issued) = added
    /\ (~removed /\ \A c \in Clients : cpc[c] # "add") =>
            \A all \in GetAllConnections(tracker) :
                /\ Len(all) = added
                /\ {all[i].connection_id : i \in 1..Len(all)} = issued
                /\ \A i, j \in 1..Len(all) :
                        i # j => all[i].connection_id # all[j].connection_id

\* Two additions that overlapped: the one that took the lower id finished last.
ConcurrentAddsWitness ==
    /\ ~removed
    /\ \A c \in Clients : cpc[c] # "add"
    /\ added >= 2
    /\ \E a, b \in DOMAIN tracker :
            a < b /\ tracker[a].creation_time > tracker[b].creation_time

\* C5: the connections array of a connection_info response is sorted strictly
\* ascending by connection_id, whatever order the tracker gave the entries in.
ConnectionInfoSortedAscending ==
    response.handler = "ConnectionInfoHandler" =>
        \A i, j \in 1..Len(response.connections) :
            i < j => response.connections[i].connection_id
                        < response.connections[j].connection_id

ConnectionInfoSortedWitness ==
    /\ response.handler = "ConnectionInfoHandler"
    /\ Len(response.connections) >= 2

\* C6: remove_connection(id) removes only the entry of id. A step that is a
\* remove_connection call leaves every other entry, with all its fields, as it
\* was: the tracker afterwards is the tracker before, minus that one id.
RemoveOnlyThatId ==
    [][lastOp'.op = "remove_connection" /\ ops' = ops + 1 =>
            /\ DOMAIN tracker' = DOMAIN tracker \ {lastOp'.id}
            /\ \A k \in DOMAIN tracker' : tracker'[k] = tracker[k]]_vars

RemoveOnlyThatIdWitness ==
    /\ lastOp.op = "remove_connection"
    /\ lastOp.hit
    /\ \E k \in DOMAIN tracker : k < lastOp.id /\ tracker[k].num_requests > 0

\* C7: a remove_connection or increment_request_count call for an id that is
\* not registered (never was, or was removed) leaves the tracker unchanged: it
\* does not fail and does not create the entry again.
AbsentIdIsNoOp ==
    [][(/\ lastOp'.op \in {"remove_connection", "increment_request_count"}
        /\ ops' = ops + 1
        /\ lastOp'.id \notin DOMAIN tracker) => tracker' = tracker]_vars

AbsentIdWitness ==
    /\ lastOp.op = "increment_request_count"
    /\ ~lastOp.hit
    /\ lastOp.id \in issued
    /\ removed

\* C8: a snapshot returned under concurrent add, remove and increment calls
\* equals the tracker's contents at one moment between its start and its end:
\* a finished copy holds exactly the ids registered at that moment, each with
\* the entry it had then.
SnapshotIsPointInTime ==
    \A c \in Clients :
        (cpc[c] = "snapshot" /\ creg[c].todo = {}) =>
            \E tr \in creg[c].seen : creg[c].snap = {tr[k] : k \in DOMAIN tr}

SnapshotWitness ==
    \E c, d \in Clients :
        /\ cpc[c] = "snapshot"
        /\ creg[c].todo = {}
        /\ Cardinality(creg[c].snap) >= 2
        /\ \E e \in creg[c].snap : e.num_requests > 0
        /\ cpc[d] = "add"

\* The routes create_handlers passes to Router::new.
ConfiguredRoutes == ConnectionCreateRoutes \o commandRoutes \o requestInfoRoutes

\* C9: dispatch is exact-match with one fallback. The handler returned for a
\* request is the handler of every configured route whose method and path both
\* equal the request's, and the default handler when no route does; the
\* introspection handler is returned for GET connection_info and for nothing
\* else.
DispatchExactMatch ==
    dispatched.handler # "none" =>
        LET hits == {i \in 1..Len(ConfiguredRoutes) :
                        /\ ConfiguredRoutes[i].method = dispatched.method
                        /\ ConfiguredRoutes[i].path_suffix = dispatched.path}
        IN  /\ \A i \in hits : dispatched.handler = ConfiguredRoutes[i].handler
            /\ hits = {} => dispatched.handler = "StaticFileHandler"
            /\ dispatched.handler = "ConnectionInfoHandler" <=>
                    (dispatched.method = "GET" /\ dispatched.path = "connection_info")

DispatchFallbackWitness ==
    /\ dispatched.method = "POST"
    /\ dispatched.path = "connection_info"
    /\ dispatched.handler = "StaticFileHandler"
    /\ \E i \in 1..Len(router.routes) :
            router.routes[i].method = "POST" /\ router.routes[i].path_suffix = "request_info"

\* Two of the routes handed to create_handlers share their method and path.
HasDuplicateRoute ==
    LET given == <<Route("GET", "connection_info", "ConnectionInfoHandler")>>
                    \o commandRoutes \o requestInfoRoutes
    IN  \E i, j \in 1..Len(given) :
            /\ i < j
            /\ given[i].method = given[j].method
            /\ given[i].path_suffix = given[j].path_suffix

\* C10: construction from a route list in which two routes share method and
\* path fails with DuplicateRoute and yields no router; and in a constructed
\* router at most one route matches any request.
DuplicateRouteFails ==
    router # Unbuilt =>
        /\ HasDuplicateRoute =>
                ~router.ok /\ router.error = "DuplicateRoute" /\ router.routes = <<>>
        /\ router.ok =>
                \A m \in Methods, p \in Paths :
                    Cardinality({i \in 1..Len(router.routes) :
                                    /\ router.routes[i].method = m
                                    /\ router.routes[i].path_suffix = p}) <= 1

DuplicateRouteWitness ==
    /\ router.error = "DuplicateRoute"
    /\ ~router.ok
    /\ \E i \in 1..Len(commandRoutes) :
            commandRoutes[i].method = "GET" /\ commandRoutes[i].path_suffix = "connection_info"

\* The indices of the configured rules whose pattern matches the resolved path.
MatchingRules ==
    {i \in 1..Len(cacheRules) : IsMatch(cacheRules[i].path_regex, resolveResult.file.path)}

\* The lowest of them.
FirstMatchingRule == CHOOSE i \in MatchingRules : \A j \in MatchingRules : i <= j

\* The time left until modified + d, seen at the clock: none once it has passed
\* and none for an unknown modification time.
Remaining(modified, d) ==
    IF modified = None THEN 0
    ELSE IF modified[1] + d <= clock THEN 0
    ELSE (modified[1] + d) - clock

\* The duration configured rule i stands for, for the resolved file.
RuleDuration(i) ==
    IF cacheRules[i].rule_type = "FixedTime"
    THEN cacheRules[i].duration
    ELSE Remaining(resolveResult.file.modified, cacheRules[i].duration)

\* C11: the rules service is first-match-wins over the configured order. Its
\* answer for a resolved path is the duration of the lowest-index rule whose
\* pattern matches the path, whatever later rules match too, and no caching
\* directive when no rule matches.
FirstMatchWins ==
    cacheHeader.asked =>
        IF MatchingRules = {}
        THEN cacheHeader.header = None
        ELSE cacheHeader.header = Some(RuleDuration(FirstMatchingRule))

FirstMatchWinsWitness ==
    /\ cacheHeader.asked
    /\ \E i, j \in MatchingRules :
            /\ i = FirstMatchingRule
            /\ i < j
            /\ RuleDuration(i) # RuleDuration(j)
            /\ cacheHeader.header = Some(RuleDuration(i))

\* C12: a FixedTime(d) rule that answers for the path returns exactly d for
\* every modification time: unknown, far in the past, far in the future.
FixedTimeReturnsDuration ==
    (/\ cacheHeader.asked
     /\ MatchingRules # {}
     /\ cacheRules[FirstMatchingRule].rule_type = "FixedTime") =>
        cacheHeader.header = Some(cacheRules[FirstMatchingRule].duration)

FixedTimeWitness ==
    /\ cacheHeader.asked
    /\ MatchingRules # {}
    /\ cacheRules[FirstMatchingRule].rule_type = "FixedTime"
    /\ resolveResult.file.modified = Some(VNSTAT_PNG_CACHE_DURATION + 3)
    /\ clock = 0
    /\ cacheHeader.header = Some(3)

\* C13: a ModTimePlusDelta(d) rule that answers for the path returns
\* max(0, (modified + d) - now) for a known modification time and 0 for an
\* unknown one: never negative, 0 whenever modified + d <= now, the remaining
\* time exactly otherwise.
ModTimePlusDeltaRemaining ==
    (/\ cacheHeader.asked
     /\ MatchingRules # {}
     /\ cacheRules[FirstMatchingRule].rule_type = "ModTimePlusDelta") =>
        LET d == cacheRules[FirstMatchingRule].duration
            modified == resolveResult.file.modified
        IN  /\ cacheHeader.header # None
            /\ cacheHeader.header[1] >= 0
            /\ modified = None => cacheHeader.header[1] = 0
            /\ (modified # None /\ modified[1] + d <= clock) => cacheHeader.header[1] = 0
            /\ (modified # None /\ modified[1] + d > clock) =>
                    cacheHeader.header[1] = (modified[1] + d) - clock

ModTimePlusDeltaWitness ==
    /\ cacheHeader.asked
    /\ MatchingRules # {}
    /\ cacheRules[FirstMatchingRule].rule_type = "ModTimePlusDelta"
    /\ resolveResult.file.modified = Some(0)
    /\ clock = 1
    /\ cacheHeader.header = Some(1)


\* A text that starts with '.' or has a path segment that starts with '.'.
HasDotSegment(text) ==
    \E i \in 1..Len(text) : text[i] = "." /\ (i = 1 \/ text[i - 1] = "/")

\* The request resolved to a file or to a directory redirect on a dot path.
ResolvedToDotPath ==
    \/ resolveResult.kind = "Found" /\ HasDotSegment(resolveResult.file.path)
    \/ resolveResult.kind = "IsDirectory" /\ HasDotSegment(resolveResult.redirect_to)

\* The request resolved to a file or a directory redirect that is served.
ResolvedToServed ==
    /\ resolveResult.kind \in {"Found", "IsDirectory"}
    /\ ~ResolvedToDotPath

\* The redirect to the configured client-error page, caching disabled.
ClientErrorPageRedirect ==
    [status |-> "PERMANENT_REDIRECT", location |-> ClientErrorPagePath,
     cache |-> [directive |-> "no-cache", seconds |-> 0], body |-> "empty"]

\* C14: dot-path blocking. A found file or a directory redirect whose path or
\* target starts with '.' or has a segment starting with '.' is answered with
\* the client-error-page redirect, never with file content, and the response
\* is the one a not-found resolution gets.
DotPathBlocked ==
    (staticResponse # NoStaticResponse /\ ResolvedToDotPath) =>
        /\ staticResponse = ClientErrorPageRedirect
        /\ staticResponse.body # "file"
        /\ staticResponse = StaticFileHandlerHandle([kind |-> "NotFound"], clock, buildOk)

DotPathBlockedWitness ==
    /\ staticResponse = ClientErrorPageRedirect
    /\ resolveResult.kind = "Found"
    /\ resolveResult.file.path = <<"a", "/", ".", "g", "i", "t", "/", "c">>
    /\ buildOk

\* C15: outcome classification. A method the resolver does not handle gets 400;
\* not found and permission denied get the redirect to the client-error page;
\* a resolver error and a response-build error get 500; each of these carries
\* the no-cache directive, and no response other than a file served carries a
\* positive cache duration.
OutcomeClassification ==
    staticResponse # NoStaticResponse =>
        /\ resolveResult.kind = "MethodNotMatched" =>
                staticResponse.status = "BAD_REQUEST"
        /\ resolveResult.kind \in {"NotFound", "PermissionDenied"} =>
                /\ staticResponse.status = "PERMANENT_REDIRECT"
                /\ staticResponse.location = ClientErrorPagePath
        /\ (resolveResult.kind = "Err" \/ (ResolvedToServed /\ ~buildOk)) =>
                staticResponse.status = "INTERNAL_SERVER_ERROR"
        /\ (\/ resolveResult.kind \in {"MethodNotMatched", "NotFound",
                                        "PermissionDenied", "Err"}
            \/ ResolvedToServed /\ ~buildOk) =>
                staticResponse.cache.directive = "no-cache"
        /\ staticResponse.status # "OK" =>
                ~(staticResponse.cache.directive = "max-age"
                    /\ staticResponse.cache.seconds > 0)

OutcomeClassificationWitness ==
    /\ resolveResult.kind = "PermissionDenied"
    /\ staticResponse.status = "PERMANENT_REDIRECT"
    /\ staticResponse.cache.directive = "no-cache"

\* C16: for a file found on a path that is not a dot path and served, the cache
\* duration of the handler's response is the answer of the rules service for
\* the same file and clock, in whole seconds; with no matching rule the
\* response has no caching directive.
HandlerCacheIsRulesServiceAnswer ==
    (/\ staticResponse.status = "OK"
     /\ cacheHeader.asked
     /\ resolveResult.kind = "Found") =>
        IF cacheHeader.header = None
        THEN staticResponse.cache.directive = "none"
        ELSE /\ staticResponse.cache.directive = "max-age"
             /\ staticResponse.cache.seconds = cacheHeader.header[1] \div TicksPerSecond

\* C17: every request gets a request id no other request of the process has,
\* and is counted once on its connection before it is dispatched: a live
\* connection's request count is the number of service calls made on it, every
\* request being handled has been counted, and the count of a live connection
\* never decreases.
RequestCountedOnce ==
    /\ [](/\ \A i, j \in 1..Len(requestIds) : i # j => requestIds[i] # requestIds[j]
          /\ \A t \in Streams :
                /\ inflight[t] \subseteq {requestIds[i] : i \in 1..Len(requestIds)}
                /\ pc[t] = "serving" =>
                        /\ guardId[t] \in DOMAIN tracker
                        /\ tracker[guardId[t]].num_requests = calls[t]
                        /\ Cardinality(inflight[t]) <= calls[t])
    /\ [][\A t \in Streams :
            (pc[t] = "serving" /\ pc'[t] = "serving") =>
                tracker'[guardId[t]].num_requests >= tracker[guardId[t]].num_requests]_vars

RequestCountedWitness ==
    /\ requestIds = <<1, 2>>
    /\ \E t, u \in Streams :
            /\ t # u
            /\ pc[t] = "serving" /\ tracker[guardId[t]].num_requests = 1
            /\ pc[u] = "serving" /\ tracker[guardId[u]].num_requests = 1
            /\ inflight[t] \union inflight[u] = {1, 2}

\* C18: per-connection error isolation. A step in which the protocol engine of
\* one connection fails ends that connection's task and removes its tracker
\* entry and nothing else: every other connection keeps its state, its
\* requests and its entry, and the listener goes on accepting.
ErrorIsolation ==
    [][\A t \in Streams :
        (exitPath[t] = "none" /\ exitPath'[t] = "error") =>
            /\ pc'[t] = "done"
            /\ DOMAIN tracker' = DOMAIN tracker \ {guardId[t]}
            /\ \A id \in DOMAIN tracker' : tracker'[id] = tracker[id]
            /\ \A u \in Streams \ {t} :
                    /\ pc'[u] = pc[u]
                    /\ exitPath'[u] = exitPath[u]
                    /\ signals'[u] = signals[u]
                    /\ inflight'[u] = inflight[u]
            /\ mainPc = "accept" /\ mainPc' = "accept"
            /\ accepted' = accepted]_vars

ErrorIsolationWitness ==
    \E t, u \in Streams :
        /\ exitPath[t] = "error"
        /\ pc[u] = "serving"
        /\ guardId[u] \in DOMAIN tracker
        /\ inflight[u] # {}
        /\ mainPc = "accept"

\* C19: a request whose handling fails (the response cannot be serialized, the
\* resolver returns an I/O error) is answered with a 500, the service call
\* returns Ok to the protocol engine, and the step changes no connection's
\* state, signals or registration.
RequestFailureKeepsConnection ==
    [][(response = NoResponse /\ response'.failed) =>
            /\ response'.status = "INTERNAL_SERVER_ERROR"
            /\ response'.service_result = "Ok"
            /\ pc' = pc
            /\ signals' = signals
            /\ exitPath' = exitPath
            /\ tracker' = tracker
            /\ mainPc' = mainPc]_vars

\* A failed request on an HTTP/1.1 connection that is still served, was asked
\* no shutdown and has no request left: the next request can be taken.
RequestFailureWitness ==
    /\ response.failed
    /\ response.status = "INTERNAL_SERVER_ERROR"
    /\ serverProtocol = "Http1"
    /\ pc[response.stream] = "serving"
    /\ signals[response.stream] = <<>>
    /\ inflight[response.stream] = {}
    /\ nextRequestId <= MaxRequests

\* C20: startup ordering. A connection is accepted only after the
\* configuration was read, the rules service was built and the router was
\* constructed, all successfully; a startup step or the bind that fails ends
\* the process with a non-zero status and no connection accepted.
StartupOrdering ==
    /\ accepted > 0 =>
            /\ {"read_configuration", "create_rules_service_instance",
                "create_handlers", "bind"} \subseteq completed
            /\ rulesService.ok
            /\ router.ok
    /\ fatal \in {"read_configuration", "create_rules_service_instance",
                  "create_handlers", "bind"} =>
            /\ mainPc = "exited"
            /\ exitStatus = Some(1)
            /\ accepted = 0
    /\ (rulesService # NoRulesService /\ ~rulesService.ok) =>
            fatal = "create_rules_service_instance"
    /\ (router # Unbuilt /\ ~router.ok) => fatal = "create_handlers"

StartupOrderingWitness ==
    /\ accepted > 0
    /\ mainPc = "accept"
    /\ \E t \in Streams : pc[t] = "serving"

\* The state of the connection of stream t in the connection state machine:
\* Serving while handle_connection races the engine and asked no shutdown of
\* it, GracefulShutdownRequested once it did, Closed when handle_connection
\* ended and the engine with it, None for a stream with no connection.
ConnectionState(t) ==
    IF pc[t] = "serving"
    THEN IF signals[t] = <<>> THEN "Serving" ELSE "GracefulShutdownRequested"
    ELSE IF pc[t] = "done" THEN "Closed" ELSE "None"

TimerFires(t) == pc[t] = "serving" /\ iter'[t] = iter[t] + 1

\* C22, as stated: every timer firing calls graceful_shutdown and is followed
\* by a further race of the engine against a next timer, the connection still
\* served and its requests in flight kept.
EverySignalFollowedByRace ==
    [][\A t \in Streams :
        TimerFires(t) =>
            /\ signals'[t] = Append(signals[t], connection_timeout_durations[iter[t] + 1])
            /\ pc'[t] = "serving"
            /\ iter'[t] < Len(connection_timeout_durations)
            /\ inflight'[t] = inflight[t]]_vars

\* C22, amended: every timer firing calls graceful_shutdown; after every
\* firing but the last the connection is still served, its requests in flight
\* and its tracker entry kept, and the engine is raced against the next timer;
\* the last firing ends handle_connection in the same step, with no further
\* interval.
SignalFollowedByRaceUnlessLast ==
    [][\A t \in Streams :
        TimerFires(t) =>
            /\ signals'[t] = Append(signals[t], connection_timeout_durations[iter[t] + 1])
            /\ IF iter'[t] < Len(connection_timeout_durations)
               THEN /\ pc'[t] = "serving"
                    /\ inflight'[t] = inflight[t]
                    /\ tracker' = tracker
                    /\ exitPath'[t] = "none"
               ELSE /\ pc'[t] = "done"
                    /\ exitPath'[t] = "exhausted"]_vars

\* A connection served after its first timer fired, a request of it still in
\* flight, next to one whose last timer fired.
SignalFollowedByRaceWitness ==
    \E t, u \in Streams :
        /\ pc[t] = "serving"
        /\ signals[t] = <<connection_timeout_durations[1]>>
        /\ inflight[t] # {}
        /\ exitPath[u] = "exhausted"
        /\ Len(signals[u]) = Len(connection_timeout_durations)

BoundedConnectionLifetime ==
    /\ [](\A t \in Streams : /\ iter[t] <= Len(connection_timeout_durations)
                              /\ Len(signals[t]) = iter[t])
    /\ \A t \in Streams : (pc[t] = "serving") ~> (pc[t] # "serving")
    /\ \A id \in 1..MaxConns : (id \in DOMAIN tracker) ~> (id \notin DOMAIN tracker)

\* Every accepted connection ended by its timers alone, no engine having
\* completed, and the tracker is empty again.
BoundedConnectionLifetimeWitness ==
    /\ accepted = MaxConns
    /\ \A t \in Streams : /\ exitPath[t] = "exhausted"
                          /\ iter[t] = Len(connection_timeout_durations)
                          /\ guardId[t] \notin DOMAIN tracker
    /\ tracker = <<>>
    /\ mainPc = "accept"

\* The connection of stream t is among the connections a response lists.
ListsConnection(t) ==
    \E i \in 1..Len(response.connections) :
        response.connections[i].connection_id = guardId[t]

\* A connection_info response that was serialized.
ConnectionInfoAnswered ==
    response.handler = "ConnectionInfoHandler" /\ response.status = "OK"

\* C25, as stated: registration brackets serving. A connection whose task runs
\* is in the tracker, a connection with a request being handled, on HTTP/1.1
\* or HTTP/2, is in the tracker, and a connection_info response lists the
\* connection it was received on.
RegistrationBracketsServing ==
    /\ \A t \in Streams : pc[t] = "serving" => guardId[t] \in DOMAIN tracker
    /\ \A t \in Streams : inflight[t] # {} => guardId[t] \in DOMAIN tracker
    /\ ConnectionInfoAnswered => ListsConnection(response.stream)

\* C25, amended: a connection is in the tracker exactly while its task runs;
\* a request handled while the task runs, which is every request of an
\* HTTP/1.1 connection, finds the connection in the tracker, and a
\* connection_info response made then lists it. An HTTP/2 request that
\* outlives handle_connection is handled with the connection's id removed.
RegistrationBracketsTask ==
    /\ \A t \in Streams : pc[t] = "serving" <=> guardId[t] \in DOMAIN tracker
    /\ \A t \in Streams :
            (inflight[t] # {} /\ (serverProtocol = "Http1" \/ pc[t] = "serving")) =>
                guardId[t] \in DOMAIN tracker
    /\ \A t \in Streams :
            (inflight[t] # {} /\ pc[t] # "serving") => serverProtocol = "Http2"
    /\ (ConnectionInfoAnswered
            /\ (serverProtocol = "Http1" \/ pc[response.stream] = "serving")) =>
                ListsConnection(response.stream)

\* A connection_info response on a connection still served, listing it and
\* another connection, while a further request of that connection is in flight.
RegistrationBracketsWitness ==
    /\ ConnectionInfoAnswered
    /\ pc[response.stream] = "serving"
    /\ ListsConnection(response.stream)
    /\ Len(response.connections) = 2
    /\ inflight[response.stream] # {}

====
